---- MODULE Spec2Model ----
(***************************************************************************)
(* Matrix product arrays of mpnum/mparray.py.                              *)
(*                                                                         *)
(* A local tensor is modelled by its shape (first bond l, physical legs p, *)
(* last bond r) and by two facts about its values: lo (reshaped to         *)
(* (l*prod(p), r) it has orthonormal columns) and ro (reshaped to          *)
(* (l, prod(p)*r) it has orthonormal rows).  Values are generic: a factor  *)
(* that no step made orthonormal is not orthonormal.                       *)
(*                                                                         *)
(* numpy arrays are objects, and two MPArrays may hold the same storage:   *)
(* __mul__ puts the operand's own arrays into the result's list and        *)
(* np.transpose returns views.  Lists are never shifted, so storage is     *)
(* only ever shared between the same site of two MPArrays: alias holds     *)
(* <<s1, s2, i>> when site i of the arrays in slots s1 < s2 is one piece   *)
(* of storage, and a write in place reaches every array that shares it.    *)
(*                                                                         *)
(* Spec is a program that holds one array and calls every operation on it, *)
(* with each call recorded in full in lastOp.  SpecShared is a program     *)
(* that holds several arrays and calls the operations that pass local      *)
(* tensors from one array to another or write them in place.               *)
(***************************************************************************)
EXTENDS Integers, Sequences, FiniteSets

\* ---------------------------------------------------------------- bounds
MaxArrays == 2
MaxLen == 3
MaxBond == 3
MaxBdim == 2

MaxShared == 2

VARIABLES arrs, alias, lastOp

vars == <<arrs, alias, lastOp>>

Slots == 1..MaxArrays

\* ------------------------------------------------------- python helpers
None == <<>>

Some(v) == <<v>>

\* python's `x or d`: d when x is None or 0
PyOr(x, d) == IF x = None THEN d ELSE IF x[1] = 0 THEN d ELSE x[1]

Min(a, b) == IF a < b THEN a ELSE b

Max(a, b) == IF a > b THEN a ELSE b

RECURSIVE Prod(_)
Prod(s) == IF s = <<>> THEN 1 ELSE s[1] * Prod(Tail(s))

Reverse(s) == [i \in 1..Len(s) |-> s[Len(s) + 1 - i]]

\* ------------------------------------------------------------- tensors
Tensor(l, p, r, lo, ro) == [l |-> l, p |-> p, r |-> r, lo |-> lo, ro |-> ro]

\* a tensor of shape sh = (l, physical legs..., r)
TensorOfShape(sh, lo, ro) ==
    Tensor(sh[1], SubSeq(sh, 2, Len(sh) - 1), sh[Len(sh)], lo, ro)

Shape(T) == <<T.l>> \o T.p \o <<T.r>>

\* An orthonormal factor of shape (l, p, r) is orthonormal in the other
\* direction as well exactly when that reshaping is square unitary too.
AlsoOrth(l, P, r) == l = r /\ (P = 1 \/ l = 1)

\* numpy.linalg.qr (mode 'reduced') of an M x N matrix: q is M x K and
\* r is K x N with K = min(M, N)
qr(M, N) == [q |-> <<M, Min(M, N)>>, r |-> <<Min(M, N), N>>]

\* numpy.linalg.svd (full_matrices) of an M x N matrix: u is M x M, there
\* are min(M, N) singular values and v is N x N
svd(M, N) == [u |-> <<M, M>>, sv |-> Min(M, N), v |-> <<N, N>>]

\* ndarray.reshape succeeds iff the number of elements is kept
CanReshape(n, shape) == n = Prod(shape)

\* ------------------------------------------------------------ MPArray
NoArray == [live |-> FALSE, ltens |-> <<>>, lnormalized |-> None,
            rnormalized |-> None]

\* a constructor that stores whatever list it is given
ShapesMatchLax(tens) == TRUE

\* __init__'s pairwise check: shape(ltens[i])[-1] == shape(ltens[i+1])[0]
ShapesMatch(tens) ==
    \A i \in 1..(Len(tens) - 1) : tens[i].r = tens[i + 1].l

\* __init__: the object that is stored once the check has passed
MPArrayInit(tens, ln, rn) ==
    [live |-> TRUE, ltens |-> tens, lnormalized |-> ln, rnormalized |-> rn]

len(a) == Len(a.ltens)

normal_form(a) == <<PyOr(a.lnormalized, 0), PyOr(a.rnormalized, len(a))>>

bdims(a) == [i \in 1..(len(a) - 1) |-> a.ltens[i + 1].l]

pdims(a) == [i \in 1..len(a) |-> a.ltens[i].p]

\* ------------------------------------------------------------ storage
Pair(a, b, i) == IF a < b THEN <<a, b, i>> ELSE <<b, a, i>>

\* the slots whose site i is the storage of site i of slot s
Class(al, s, i) == {s} \cup {u \in Slots : u # s /\ Pair(s, u, i) \in al}

\* slot t is rebound: what its old array shared is no longer shared with it
Without(al, t) == {x \in al : x[1] # t /\ x[2] # t}

\* slot t is bound to a new array that holds the storage of the array in
\* slot s at the sites I and new storage elsewhere
ShareWith(al, t, s, I) ==
    IF s = t
    THEN {x \in al : (x[1] = t \/ x[2] = t) => x[3] \in I}
    ELSE Without(al, t) \cup
         UNION {{Pair(t, u, i) : u \in Class(Without(al, t), s, i)} : i \in I}

\* the array in slot s no longer holds its old storage at the sites I
Unshare(al, s, I) == {x \in al : (x[1] = s \/ x[2] = s) => x[3] \notin I}

\* the positions holding the storage of one of the sites I of slot s
Holders(al, s, I) == UNION {{<<u, i>> : u \in Class(al, s, i)} : i \in I}

\* -------------------------------------------------------- history
\* lastOp is the last call and what it did: the method, the slots of its
\* operands, the slot of its subject or result, whether it returned (and
\* the error it raised if not), the normal form and length of the subject
\* before the call, the targets left and right as normalize resolved them
\* (noargs: called without arguments), max_bdim, the direction compress
\* took, the positions whose tensor was written in place or replaced, the
\* factorization steps and the sweeps that finished.
NoOp == [op |-> "none", src |-> <<>>, tgt |-> 0, ok |-> TRUE, err |-> "",
         pre |-> <<0, 0>>, preLen |-> 0, noargs |-> FALSE, left |-> 0,
         right |-> 0, max_bdim |-> 0, direction |-> "",
         touched |-> {}, qrs |-> <<>>, sweeps |-> <<>>]

\* What is kept of a call: all of it (d), or only which call it was, on
\* which operands, and whether it returned.
Rec(op, d) ==
    IF d THEN op
    ELSE [NoOp EXCEPT !.op = op.op, !.src = op.src, !.ok = op.ok]

Init ==
    /\ arrs = [s \in Slots |-> NoArray]
    /\ alias = {}
    /\ lastOp = NoOp

\* a call that raised before it stored or wrote anything
Raise(op, err, d) ==
    /\ UNCHANGED <<arrs, alias>>
    /\ lastOp' = Rec([op EXCEPT !.ok = FALSE, !.err = err], d)

\* a call whose result is bound to slot t: a becomes the array of slot t
\* once the constructor has checked it, and holds the storage of slot s at
\* the sites I
Bind(t, a, s, I, op, d) ==
    IF ~ShapesMatch(a.ltens) THEN Raise([op EXCEPT !.tgt = t], "ValueError", d)
    ELSE /\ arrs' = [arrs EXCEPT ![t] = a]
         /\ alias' = ShareWith(alias, t, s, I)
         /\ lastOp' = Rec([op EXCEPT !.tgt = t], d)

\* ------------------------------------------------------ construction
Phys == <<2>>

Generic(l, r) == Tensor(l, Phys, r, FALSE, FALSE)

\* the chains of n sites with bond 1 at both ends and inner bonds up to
\* MaxBond (for n = 0 the empty list)
OpenChains(n) ==
    {[i \in 1..n |-> Generic(b[i], b[i + 1])] :
        b \in {c \in [1..(n + 1) -> 1..MaxBond] : c[1] = 1 /\ c[n + 1] = 1}}

\* The lists given to the constructor: the open chains, a chain whose last
\* bond is not 1, and lists whose neighbours disagree.
CtorInputs ==
    UNION {OpenChains(n) : n \in 0..MaxLen} \cup
    { <<Generic(1, 2)>>,
      <<Generic(1, 2), Generic(1, 1)>>,
      <<Generic(1, 1), Generic(1, 2), Generic(1, 1)>> }

\* MPArray(ltens)
Construct(t, tens, d) ==
    /\ t \in Slots
    /\ Bind(t, MPArrayInit(tens, None, None), t, {},
            [NoOp EXCEPT !.op = "init", !.preLen = Len(tens)], d)

\* _extract_factors(tens, plegs) on a tensor of shape sh
RECURSIVE extract_factors(_, _)
extract_factors(sh, plegs) ==
    IF Len(sh) = plegs + 1
    THEN <<TensorOfShape(Append(sh, 1), FALSE, FALSE)>>
    ELSE LET M == Prod(SubSeq(sh, 1, plegs + 1))
             N == Prod(SubSeq(sh, plegs + 2, Len(sh)))
             f == qr(M, N)
             ush == Append(SubSeq(sh, 1, plegs + 1), f.r[1])
             rsh == <<f.r[1]>> \o SubSeq(sh, plegs + 2, Len(sh))
         IN  <<TensorOfShape(ush, TRUE,
                             AlsoOrth(ush[1], Prod(SubSeq(ush, 2, plegs + 1)),
                                      f.r[1]))>>
             \o extract_factors(rsh, plegs)

\* dense arrays: every axis of size 2
DenseShapes == {[i \in 1..n |-> 2] : n \in 1..MaxLen}

PlegsInputs == {1, 2}

\* MPArray.from_array(array, plegs)
FromArray(t, dims, plegs, d) ==
    LET op == [NoOp EXCEPT !.op = "from_array", !.tgt = t]
    IN  IF Len(dims) % plegs # 0
        THEN Raise(op, "AssertionError", d)
        ELSE LET tens == extract_factors(<<1>> \o dims, plegs)
             IN  Bind(t, MPArrayInit(tens, Some(Len(tens) - 1), None), t, {},
                      [op EXCEPT !.preLen = Len(tens)], d)

\* ----------------------------------------------------- normalization
\* the left-orthonormal factor written over tensor T
LeftQ(T) == [T EXCEPT !.lo = TRUE,
                      !.ro = IF T.lo THEN T.ro ELSE AlsoOrth(T.l, Prod(T.p), T.r)]

\* the right-orthonormal factor written over tensor T
RightQ(T) == [T EXCEPT !.ro = TRUE,
                       !.lo = IF T.ro THEN T.lo ELSE AlsoOrth(T.l, Prod(T.p), T.r)]

\* matdot of a tensor with the remainder of a neighbour's factorization;
\* the remainder of an orthonormal factor is unitary
Absorb(T, unitary) == IF unitary THEN T ELSE [T EXCEPT !.lo = FALSE, !.ro = FALSE]

\* The run of an in-place method on array a.  tens is self._ltens, cells
\* the storage the list named when the method was called, written the
\* sites written in place, replaced the sites bound to a new array.
Run(a) == [ok |-> TRUE, err |-> "", tens |-> a.ltens, cells |-> a.ltens,
           written |-> {}, replaced |-> {},
           ln |-> a.lnormalized, rn |-> a.rnormalized,
           qrs |-> <<>>, sweeps |-> <<>>]

RunNF(run) == <<PyOr(run.ln, 0), PyOr(run.rn, Len(run.tens))>>

Fail(run, err) == [run EXCEPT !.ok = FALSE, !.err = err]

\* self._ltens[site][:] = x writes the storage of site `site`
WriteInPlace(run, site, T) ==
    [run EXCEPT !.tens[site + 1] = T, !.cells[site + 1] = T,
                !.written = @ \cup {site}]

\* the loop of _lnormalize from `site` up to to_site - 1
RECURSIVE LSweep(_, _, _)
LSweep(run, site, to_site) ==
    IF site >= to_site \/ ~run.ok THEN run
    ELSE LET T == run.tens[site + 1]
             f == qr(T.l * Prod(T.p), T.r)
         IN  IF ~CanReshape(f.q[1] * f.q[2], Shape(T))
             THEN Fail(run, "ValueError")
             ELSE LSweep([WriteInPlace(
                             WriteInPlace(run, site, LeftQ(T)),
                             site + 1, Absorb(run.tens[site + 2], T.lo))
                          EXCEPT !.qrs = Append(@, <<"left", site>>)],
                         site + 1, to_site)

\* the loop of _rnormalize from `site` down to to_site
RECURSIVE RSweep(_, _, _)
RSweep(run, site, to_site) ==
    IF site < to_site \/ ~run.ok THEN run
    ELSE LET T == run.tens[site + 1]
             f == qr(Prod(T.p) * T.r, T.l)
         IN  IF ~CanReshape(f.q[1] * f.q[2], Shape(T))
             THEN Fail(run, "ValueError")
             ELSE RSweep([WriteInPlace(
                             WriteInPlace(run, site, RightQ(T)),
                             site - 1, Absorb(run.tens[site], T.ro))
                          EXCEPT !.qrs = Append(@, <<"right", site>>)],
                         site - 1, to_site)

Sweep(dir, to_site, pre, post) ==
    [dir |-> dir, to |-> to_site, pre |-> pre, post |-> post]

lnormalize(run, to_site) ==
    IF ~(to_site < Len(run.tens)) THEN Fail(run, "AssertionError")
    ELSE LET nf == RunNF(run)
             done == LSweep(run, nf[1], to_site)
             set == [done EXCEPT !.ln = Some(to_site),
                                 !.rn = Some(Max(to_site + 1, nf[2]))]
         IN  IF ~done.ok THEN done
             ELSE [set EXCEPT
                     !.sweeps = Append(@, Sweep("left", to_site, nf, RunNF(set)))]

\* a _rnormalize that leaves the left mark as it was
rnormalizeStaleLeft(run, to_site) ==
    IF ~(to_site > 0) THEN Fail(run, "AssertionError")
    ELSE LET nf == RunNF(run)
             done == RSweep(run, nf[2] - 1, to_site)
             set == [done EXCEPT !.rn = Some(to_site)]
         IN  IF ~done.ok THEN done
             ELSE [set EXCEPT
                     !.sweeps = Append(@, Sweep("right", to_site, nf, RunNF(set)))]

rnormalize(run, to_site) ==
    IF ~(to_site > 0) THEN Fail(run, "AssertionError")
    ELSE LET nf == RunNF(run)
             done == RSweep(run, nf[2] - 1, to_site)
             set == [done EXCEPT !.ln = Some(Min(to_site - 1, nf[1])),
                                 !.rn = Some(to_site)]
         IN  IF ~done.ok THEN done
             ELSE [set EXCEPT
                     !.sweeps = Append(@, Sweep("right", to_site, nf, RunNF(set)))]

\* a normalize that sweeps to the left target whatever the normal form is
normalizeEager(run, kind, m, n) ==
    IF kind = "none" THEN lnormalize(run, Len(run.tens) - 1)
    ELSE LET lnorm == IF kind \in {"left", "both"} THEN m ELSE 0
             rnorm == IF kind \in {"right", "both"} THEN n ELSE Len(run.tens)
             current == RunNF(run)
             r1 == lnormalize(run, lnorm)
         IN  IF ~(lnorm < rnorm) THEN Fail(run, "AssertionError")
             ELSE IF ~r1.ok THEN r1
             ELSE IF current[2] > rnorm THEN rnormalize(r1, rnorm)
             ELSE r1

\* normalize(**kwargs): kind says which of left= and right= are given
normalize(run, kind, m, n) ==
    IF kind = "none" THEN lnormalize(run, Len(run.tens) - 1)
    ELSE LET lnorm == IF kind \in {"left", "both"} THEN m ELSE 0
             rnorm == IF kind \in {"right", "both"} THEN n ELSE Len(run.tens)
             current == RunNF(run)
             r1 == IF current[1] < lnorm THEN lnormalize(run, lnorm) ELSE run
         IN  IF ~(lnorm < rnorm) THEN Fail(run, "AssertionError")
             ELSE IF ~r1.ok THEN r1
             ELSE IF current[2] > rnorm THEN rnormalize(r1, rnorm)
             ELSE r1

\* What an in-place method on the array of slot s leaves, also when it
\* raised: the writes in place show in every array that holds the storage.
Mutated(s, run, op, d) ==
    /\ arrs' = [u \in Slots |->
                 IF u = s
                 THEN [live |-> TRUE, ltens |-> run.tens,
                       lnormalized |-> run.ln, rnormalized |-> run.rn]
                 ELSE [arrs[u] EXCEPT !.ltens =
                         [i \in 1..Len(arrs[u].ltens) |->
                            IF (i - 1) \in run.written
                               /\ u \in Class(alias, s, i - 1)
                            THEN [arrs[u].ltens[i] EXCEPT
                                    !.lo = run.cells[i].lo,
                                    !.ro = run.cells[i].ro]
                            ELSE arrs[u].ltens[i]]]]
    /\ alias' = Unshare(alias, s, run.replaced)
    /\ lastOp' = Rec([op EXCEPT
                        !.tgt = s, !.ok = run.ok, !.err = run.err,
                        !.pre = normal_form(arrs[s]), !.preLen = len(arrs[s]),
                        !.touched = Holders(alias, s, run.written)
                                    \cup {<<s, i>> : i \in run.replaced},
                        !.qrs = run.qrs, !.sweeps = run.sweeps], d)

Kinds == {"none", "left", "right", "both"}

\* a.normalize(), a.normalize(left=m), a.normalize(right=n),
\* a.normalize(left=m, right=n) on the array of slot s
Normalize(s, kind, m, n, d) ==
    /\ arrs[s].live
    /\ kind \in {"none", "right"} => m = 0
    /\ kind \in {"none", "left"} => n = 0
    /\ Mutated(s, normalize(Run(arrs[s]), kind, m, n),
               [NoOp EXCEPT !.op = "normalize",
                            !.noargs = (kind = "none"),
                            !.left = IF kind \in {"left", "both"} THEN m
                                     ELSE IF kind = "none" THEN len(arrs[s]) - 1
                                     ELSE 0,
                            !.right = IF kind \in {"right", "both"} THEN n
                                      ELSE len(arrs[s])], d)

\* -------------------------------------------------------- compression
\* numpy broadcasting of two sizes along one axis
Broadcasts(a, b) == a = b \/ a = 1 \/ b = 1

\* the size of the slice [:max_bdim] of an axis of size n
Slice(n, max_bdim) == Min(n, max_bdim)

\* the loop of _compress_svd_r from `site` up to len - 2
RECURSIVE SvdRSweep(_, _, _)
SvdRSweep(run, site, max_bdim) ==
    IF site >= Len(run.tens) - 1 \/ ~run.ok THEN run
    ELSE LET T == run.tens[site + 1]
             nxt == run.tens[site + 2]
             f == svd(T.l * Prod(T.p), T.r)
             k == Min(T.r, max_bdim)
             ucols == Slice(f.u[2], max_bdim)
             svrows == Slice(f.sv, max_bdim)
             vrows == Slice(f.v[1], max_bdim)
             exact == T.lo /\ k = T.r
             newT == Tensor(T.l, T.p, k, TRUE,
                            IF exact THEN T.ro ELSE AlsoOrth(T.l, Prod(T.p), k))
         IN  IF ~CanReshape(f.u[1] * ucols, <<T.l>> \o T.p \o <<k>>)
             THEN Fail(run, "ValueError")
             ELSE IF ~Broadcasts(svrows, vrows)
             THEN Fail([run EXCEPT !.tens[site + 1] = newT,
                                   !.replaced = @ \cup {site}], "ValueError")
             ELSE SvdRSweep(
                    [run EXCEPT
                       !.tens[site + 1] = newT,
                       !.tens[site + 2] =
                           Absorb([nxt EXCEPT !.l = Max(svrows, vrows)], exact),
                       !.replaced = @ \cup {site, site + 1}],
                    site + 1, max_bdim)

\* the loop of _compress_svd_l from `site` down to 1
RECURSIVE SvdLSweep(_, _, _)
SvdLSweep(run, site, max_bdim) ==
    IF site < 1 \/ ~run.ok THEN run
    ELSE LET T == run.tens[site + 1]
             prv == run.tens[site]
             f == svd(T.l, Prod(T.p) * T.r)
             k == Min(T.l, max_bdim)
             ucols == Slice(f.u[2], max_bdim)
             svcols == Slice(f.sv, max_bdim)
             vrows == Slice(f.v[1], max_bdim)
             exact == T.ro /\ k = T.l
             newT == Tensor(k, T.p, T.r,
                            IF exact THEN T.lo ELSE AlsoOrth(k, Prod(T.p), T.r),
                            TRUE)
         IN  IF ~CanReshape(vrows * f.v[2], <<k>> \o T.p \o <<T.r>>)
             THEN Fail(run, "ValueError")
             ELSE IF ~Broadcasts(ucols, svcols)
             THEN Fail([run EXCEPT !.tens[site + 1] = newT,
                                   !.replaced = @ \cup {site}], "ValueError")
             ELSE SvdLSweep(
                    [run EXCEPT
                       !.tens[site + 1] = newT,
                       !.tens[site] =
                           Absorb([prv EXCEPT !.r = Max(ucols, svcols)], exact),
                       !.replaced = @ \cup {site, site - 1}],
                    site - 1, max_bdim)

compress_svd_r(run, max_bdim) ==
    IF RunNF(run) # <<0, 1>> THEN Fail(run, "AssertionError")
    ELSE LET done == SvdRSweep(run, 0, max_bdim)
         IN  IF ~done.ok THEN done
             ELSE [done EXCEPT !.ln = Some(Len(run.tens) - 1),
                               !.rn = Some(Len(run.tens))]

\* a _compress_svd_l that ends with the metadata of _compress_svd_r
compress_svd_lPasted(run, max_bdim) ==
    IF RunNF(run) # <<Len(run.tens) - 1, Len(run.tens)>>
    THEN Fail(run, "AssertionError")
    ELSE LET done == SvdLSweep(run, Len(run.tens) - 1, max_bdim)
         IN  IF ~done.ok THEN done
             ELSE [done EXCEPT !.ln = Some(Len(run.tens) - 1),
                               !.rn = Some(Len(run.tens))]

compress_svd_l(run, max_bdim) ==
    IF RunNF(run) # <<Len(run.tens) - 1, Len(run.tens)>>
    THEN Fail(run, "AssertionError")
    ELSE LET done == SvdLSweep(run, Len(run.tens) - 1, max_bdim)
         IN  IF ~done.ok THEN done
             ELSE [done EXCEPT !.ln = Some(0), !.rn = Some(1)]

\* the direction compress takes when none is given
default_direction(nf, L) == IF L - nf[2] > nf[1] THEN "left" ELSE "right"

\* compress(max_bdim, method, direction=...)
compress(run, max_bdim, method, direction) ==
    IF method # "svd" THEN Fail(run, "ValueError")
    ELSE LET L == Len(run.tens)
             prepared == IF direction = "right"
                         THEN normalize(run, "both", 0, 1)
                         ELSE normalize(run, "both", L - 1, L)
         IN  IF ~prepared.ok THEN prepared
             ELSE IF direction = "right" THEN compress_svd_r(prepared, max_bdim)
             ELSE compress_svd_l(prepared, max_bdim)

Methods == {"svd", "qr"}

Directions == {"default", "right", "left"}

Bdims == 1..MaxBdim

Compress(s, max_bdim, method, dir, d) ==
    LET a == arrs[s]
        direction == IF dir = "default"
                     THEN default_direction(normal_form(a), len(a))
                     ELSE dir
    IN  /\ a.live
        /\ Mutated(s, compress(Run(a), max_bdim, method, direction),
                   [NoOp EXCEPT !.op = "compress", !.max_bdim = max_bdim,
                                !.noargs = (dir = "default"),
                                !.direction = IF method = "svd" THEN direction
                                              ELSE ""], d)

\* ---------------------------------------------------------- algebra
\* _local_transpose: the physical legs in reverse order, as a view
local_transpose(T) == [T EXCEPT !.p = Reverse(@)]

\* a tensor times a scalar: orthonormal only if it was and |fact| = 1
Scale(T, fact) ==
    IF fact * fact = 1 THEN T ELSE [T EXCEPT !.lo = FALSE, !.ro = FALSE]

Scalars == {0 - 1, 2}

\* whether the list index i exists in a list of n entries
InRange(i, n) == 0 - n <= i /\ i < n

\* a.copy()
Copy(s, t, d) ==
    /\ arrs[s].live
    /\ Bind(t, MPArrayInit(arrs[s].ltens, arrs[s].lnormalized,
                           arrs[s].rnormalized), t, {},
            [NoOp EXCEPT !.op = "copy", !.src = <<s>>], d)

\* a.T(): every tensor of the result is a view of the operand's
Transpose(s, t, d) ==
    /\ arrs[s].live
    /\ Bind(t, MPArrayInit([i \in 1..len(arrs[s]) |->
                               local_transpose(arrs[s].ltens[i])], None, None),
            s, 0..(len(arrs[s]) - 1),
            [NoOp EXCEPT !.op = "T", !.src = <<s>>], d)

\* a.adj(): conjugate() makes new arrays
Adj(s, t, d) ==
    /\ arrs[s].live
    /\ Bind(t, MPArrayInit([i \in 1..len(arrs[s]) |->
                               local_transpose(arrs[s].ltens[i])], None, None),
            t, {},
            [NoOp EXCEPT !.op = "adj", !.src = <<s>>], d)

\* a * fact, fact * a
Mul(s, t, fact, d) ==
    LET a == arrs[s]
        lnormal == normal_form(a)[1]
        rnormal == normal_form(a)[2]
        op == [NoOp EXCEPT !.op = "mul", !.src = <<s>>, !.tgt = t]
    IN  /\ a.live
        /\ IF ~InRange(lnormal, len(a)) THEN Raise(op, "IndexError", d)
           ELSE Bind(t, MPArrayInit([a.ltens EXCEPT ![lnormal + 1] = Scale(@, fact)],
                                    Some(lnormal), Some(rnormal)),
                     s, (0..(len(a) - 1)) \ {lnormal}, op, d)

\* a *= fact
IMul(s, fact, d) ==
    LET a == arrs[s]
        lnormal == normal_form(a)[1]
        op == [NoOp EXCEPT !.op = "imul", !.tgt = s]
    IN  /\ a.live
        /\ IF ~InRange(lnormal, len(a)) THEN Raise(op, "IndexError", d)
           ELSE Mutated(s, WriteInPlace(Run(a), lnormal,
                                        Scale(a.ltens[lnormal + 1], fact)),
                        op, d)

\* _local_add: the block-diagonal embedding of two interior tensors
local_add(A, B) ==
    Tensor(A.l + B.l, A.p, A.r + B.r, A.lo /\ B.lo, A.ro /\ B.ro)

\* the list __add__ builds from the lists A and B of equal length >= 1
SumTensors(A, B) ==
    <<Tensor(A[1].l, A[1].p, A[1].r + B[1].r, FALSE, FALSE)>>
    \o [i \in 1..(Len(A) - 2) |-> local_add(A[i + 1], B[i + 1])]
    \o <<Tensor(A[Len(A)].l + B[Len(B)].l, A[Len(A)].p, A[Len(A)].r,
                FALSE, FALSE)>>

\* np.concatenate along one bond axis: the other axes, the bond `keep`
\* among them, must agree
Joinable(A, B, keep) ==
    A.p = B.p /\ (IF keep = "l" THEN A.l = B.l ELSE A.r = B.r)

WithinBond(tens) == \A i \in 1..Len(tens) : tens[i].l <= MaxBond /\ tens[i].r <= MaxBond

\* a + b (name "add") and a - b (name "sub": a + (-1) * b, whose tensors
\* have the shapes of b's)
Add(a, b, t, name, d) ==
    LET A == arrs[a].ltens
        B == arrs[b].ltens
        op == [NoOp EXCEPT !.op = name, !.src = <<a, b>>, !.tgt = t]
    IN  /\ arrs[a].live /\ arrs[b].live
        /\ IF name = "sub" /\ ~InRange(normal_form(arrs[b])[1], Len(B))
           THEN Raise(op, "IndexError", d)
           ELSE IF Len(A) # Len(B) THEN Raise(op, "AssertionError", d)
           ELSE IF Len(A) = 0 THEN Raise(op, "IndexError", d)
           ELSE IF ~Joinable(A[1], B[1], "l") THEN Raise(op, "ValueError", d)
           ELSE IF \E i \in 2..(Len(A) - 1) : A[i].p # B[i].p
           THEN Raise(op, "AssertionError", d)
           ELSE IF ~Joinable(A[Len(A)], B[Len(B)], "r")
           THEN Raise(op, "ValueError", d)
           ELSE /\ WithinBond(SumTensors(A, B))
                /\ Bind(t, MPArrayInit(SumTensors(A, B), None, None), t, {}, op, d)

\* _local_dot over the last physical leg of A and the first of B
local_dot(A, B) ==
    Tensor(A.l * B.l, SubSeq(A.p, 1, Len(A.p) - 1) \o Tail(B.p), A.r * B.r,
           FALSE, FALSE)

\* dot(a, b) with the default axes, for tensors that have physical legs
Dot(a, b, t, d) ==
    LET A == arrs[a].ltens
        B == arrs[b].ltens
        op == [NoOp EXCEPT !.op = "dot", !.src = <<a, b>>, !.tgt = t]
        prod == [i \in 1..Len(A) |-> local_dot(A[i], B[i])]
    IN  /\ arrs[a].live /\ arrs[b].live
        /\ \A i \in 1..Len(A) : A[i].p # <<>>
        /\ \A i \in 1..Len(B) : B[i].p # <<>>
        /\ IF Len(A) # Len(B) THEN Raise(op, "AssertionError", d)
           ELSE IF \E i \in 1..Len(A) : A[i].p[Len(A[i].p)] # B[i].p[1]
           THEN Raise(op, "ValueError", d)
           ELSE /\ WithinBond(prod)
                /\ Bind(t, MPArrayInit(prod, None, None), t, {}, op, d)

\* ------------------------------------------------------ specifications
\* the slot of a program that holds one array
Solo == {1}

\* A program that holds one array and makes every call on it; the call is
\* recorded in full.
Next ==
    \/ \E t \in Solo, tens \in CtorInputs : Construct(t, tens, TRUE)
    \/ \E t \in Solo, dims \in DenseShapes, plegs \in PlegsInputs :
          FromArray(t, dims, plegs, TRUE)
    \/ \E s \in Solo, t \in Solo : Copy(s, t, TRUE)
    \/ \E s \in Solo, t \in Solo : Transpose(s, t, TRUE)
    \/ \E s \in Solo, t \in Solo : Adj(s, t, TRUE)
    \/ \E s \in Solo, t \in Solo, fact \in Scalars : Mul(s, t, fact, TRUE)
    \/ \E s \in Solo, fact \in Scalars : IMul(s, fact, TRUE)
    \/ \E a \in Solo, b \in Solo, t \in Solo, name \in {"add", "sub"} :
          Add(a, b, t, name, TRUE)
    \/ \E a \in Solo, b \in Solo, t \in Solo : Dot(a, b, t, TRUE)
    \/ \E s \in Solo, kind \in Kinds, m \in 0..MaxLen, n \in 0..MaxLen :
          Normalize(s, kind, m, n, TRUE)
    \/ \E s \in Solo, max_bdim \in Bdims, method \in Methods, dir \in Directions :
          Compress(s, max_bdim, method, dir, TRUE)

Spec == Init /\ [][Next]_vars

\* A program that holds up to MaxArrays arrays of at most MaxShared sites and
\* makes the calls that hand tensors from one array to another or write them
\* in place.
NextShared ==
    \/ \E t \in Slots, tens \in {c \in CtorInputs : Len(c) <= MaxShared} :
          Construct(t, tens, FALSE)
    \/ \E t \in Slots, dims \in {c \in DenseShapes : Len(c) <= MaxShared} :
          FromArray(t, dims, 1, FALSE)
    \/ \E s \in Slots, t \in Slots : Copy(s, t, FALSE)
    \/ \E s \in Slots, t \in Slots : Transpose(s, t, FALSE)
    \/ \E s \in Slots, t \in Slots, fact \in Scalars : Mul(s, t, fact, FALSE)
    \/ \E s \in Slots, fact \in Scalars : IMul(s, fact, FALSE)
    \/ \E a \in Slots, b \in Slots, t \in Slots : Add(a, b, t, "add", FALSE)
    \/ \E s \in Slots, kind \in Kinds, m \in 0..MaxShared, n \in 0..MaxShared :
          Normalize(s, kind, m, n, FALSE)
    \/ \E s \in Slots, max_bdim \in Bdims, method \in Methods, dir \in Directions :
          Compress(s, max_bdim, method, dir, FALSE)

SpecShared == Init /\ [][NextShared]_vars

\* --------------------------------------------------------------- claims
\* C1: after every call, every array held has equal bond sizes on the two
\* sides of each junction between neighbouring sites, and a constructor call
\* that is rejected has stored nothing.
C1_Adjacency ==
    [][/\ \A s \in Slots : arrs'[s].live =>
             \A i \in 1..(len(arrs'[s]) - 1) :
                arrs'[s].ltens[i].r = arrs'[s].ltens[i + 1].l
       /\ (lastOp'.op = "init" /\ ~lastOp'.ok) => arrs' = arrs]_vars

\* a compression has returned on a chain of three or more sites that still
\* has a bond larger than 1
C1_Witness ==
    /\ lastOp.op = "compress" /\ lastOp.ok
    /\ len(arrs[1]) >= 3
    /\ \E i \in 1..(len(arrs[1]) - 1) : arrs[1].ltens[i].r >= 2

\* C2: for every array held, with normal form (lnorm, rnorm), every local
\* tensor at an index below lnorm is left-orthonormal and every local tensor
\* at an index from rnorm on is right-orthonormal.
C2_MetadataSound ==
    \A s \in Slots : arrs[s].live =>
        \A i \in 1..len(arrs[s]) :
            /\ (i - 1 < normal_form(arrs[s])[1]) => arrs[s].ltens[i].lo
            /\ (i - 1 >= normal_form(arrs[s])[2]) => arrs[s].ltens[i].ro

\* C3: for every array held, of length L, the normal form (lnorm, rnorm)
\* satisfies 0 <= lnorm <= rnorm <= L.
C3_Range ==
    \A s \in Slots : arrs[s].live =>
        /\ 0 <= normal_form(arrs[s])[1]
        /\ normal_form(arrs[s])[1] <= normal_form(arrs[s])[2]
        /\ normal_form(arrs[s])[2] <= len(arrs[s])

\* C4: when normalize returns, the normal form (l1, r1) has l1 >= m and
\* r1 <= n for the targets m < n of the call (left defaults to 0, right to
\* L); a left sweep to t has left lnorm = t and rnorm = max(t + 1, previous
\* rnorm), a right sweep to t has left rnorm = t and lnorm = min(t - 1,
\* previous lnorm); and normalize() leaves normal form (L - 1, L).
C4_NormalizePost ==
    (lastOp.op = "normalize" /\ lastOp.ok) =>
        /\ ~lastOp.noargs =>
              /\ normal_form(arrs[lastOp.tgt])[1] >= lastOp.left
              /\ normal_form(arrs[lastOp.tgt])[2] <= lastOp.right
        /\ \A k \in 1..Len(lastOp.sweeps) :
              /\ lastOp.sweeps[k].dir = "left" =>
                    lastOp.sweeps[k].post =
                        <<lastOp.sweeps[k].to,
                          Max(lastOp.sweeps[k].to + 1, lastOp.sweeps[k].pre[2])>>
              /\ lastOp.sweeps[k].dir = "right" =>
                    lastOp.sweeps[k].post =
                        <<Min(lastOp.sweeps[k].to - 1, lastOp.sweeps[k].pre[1]),
                          lastOp.sweeps[k].to>>
        /\ lastOp.noargs =>
              normal_form(arrs[lastOp.tgt]) = <<lastOp.preLen - 1, lastOp.preLen>>

\* C5: normalize (also the one compress calls first) factorizes no site that
\* the normal form before the call records as normalized in the direction
\* of the sweep; and a normalize(left=m') that follows a normalize(left=m)
\* with m' <= m factorizes nothing and leaves every local tensor and the
\* normal form as they were.
C5_NoRedundantWork ==
    [][/\ lastOp'.op \in {"normalize", "compress"} =>
             \A k \in 1..Len(lastOp'.qrs) :
                /\ lastOp'.qrs[k][1] = "left" =>
                      lastOp'.qrs[k][2] >= normal_form(arrs[lastOp'.tgt])[1]
                /\ lastOp'.qrs[k][1] = "right" =>
                      lastOp'.qrs[k][2] < normal_form(arrs[lastOp'.tgt])[2]
       /\ (/\ lastOp.op = "normalize" /\ ~lastOp.noargs /\ lastOp.ok
           /\ lastOp.right = lastOp.preLen
           /\ lastOp'.op = "normalize" /\ ~lastOp'.noargs
           /\ lastOp'.right = lastOp'.preLen
           /\ lastOp'.tgt = lastOp.tgt
           /\ lastOp'.left <= lastOp.left) =>
             /\ lastOp'.ok
             /\ lastOp'.qrs = <<>>
             /\ arrs'[lastOp.tgt].ltens = arrs[lastOp.tgt].ltens
             /\ normal_form(arrs'[lastOp.tgt]) = normal_form(arrs[lastOp.tgt])]_vars

\* normalize(left=m) with m >= 1 has returned on an array whose normal form
\* already had lnorm >= m, and the array holds tensors the first sweep made
C5_Witness ==
    /\ lastOp.op = "normalize" /\ ~lastOp.noargs /\ lastOp.ok
    /\ lastOp.right = lastOp.preLen
    /\ lastOp.left >= 1
    /\ lastOp.pre[1] >= lastOp.left
    /\ lastOp.qrs = <<>>
    /\ arrs[lastOp.tgt].ltens[1].lo

\* C6: when compress(max_bdim) returns, every bond of the array is at most
\* max_bdim, and the normal form is (L - 1, L) after a sweep to the right and
\* (0, 1) after a sweep to the left.
C6_CompressPost ==
    (lastOp.op = "compress" /\ lastOp.ok) =>
        /\ \A i \in 1..(len(arrs[lastOp.tgt]) - 1) :
              /\ arrs[lastOp.tgt].ltens[i].r <= lastOp.max_bdim
              /\ arrs[lastOp.tgt].ltens[i + 1].l <= lastOp.max_bdim
        /\ lastOp.direction = "right" =>
              normal_form(arrs[lastOp.tgt]) =
                  <<len(arrs[lastOp.tgt]) - 1, len(arrs[lastOp.tgt])>>
        /\ lastOp.direction = "left" =>
              normal_form(arrs[lastOp.tgt]) = <<0, 1>>

\* compress has returned from a sweep over a chain of three sites or more,
\* having replaced local tensors
C6_Witness ==
    /\ lastOp.op = "compress" /\ lastOp.ok
    /\ lastOp.preLen >= 3
    /\ lastOp.touched # {}
    /\ \E i \in 1..(len(arrs[lastOp.tgt]) - 1) :
          arrs[lastOp.tgt].ltens[i].r = lastOp.max_bdim

\* C7: when a + b returns for operands of equal length L >= 1 with the
\* same physical legs at every site, some slot holds a new array of length L
\* with those physical legs whose bond at every junction is the sum of the
\* operands' bonds there, and no other array has changed; operands of
\* different length make the addition fail.
C7_SumShape ==
    [][lastOp'.op = "add" =>
         LET A == arrs[lastOp'.src[1]]
             B == arrs[lastOp'.src[2]]
         IN  /\ len(A) # len(B) => (~lastOp'.ok /\ arrs' = arrs)
             /\ (/\ lastOp'.ok /\ len(A) = len(B) /\ len(A) >= 1
                 /\ pdims(A) = pdims(B)) =>
                   \E t \in Slots :
                      /\ arrs'[t].live
                      /\ len(arrs'[t]) = len(A)
                      /\ pdims(arrs'[t]) = pdims(A)
                      /\ bdims(arrs'[t]) =
                            [i \in 1..(len(A) - 1) |-> bdims(A)[i] + bdims(B)[i]]
                      /\ \A u \in Slots \ {t} : arrs'[u] = arrs[u]]_vars

\* C8: when normalize or compress raises, every local tensor of the array
\* and its normal form are as they were before the call.
C8_NoPartialMutation ==
    [][(lastOp'.op \in {"normalize", "compress"} /\ ~lastOp'.ok) =>
          /\ arrs'[lastOp'.tgt].ltens = arrs[lastOp'.tgt].ltens
          /\ normal_form(arrs'[lastOp'.tgt]) = normal_form(arrs[lastOp'.tgt])]_vars

\* C9: when compress is called without a direction on an array of length L
\* with normal form (lnorm, rnorm), the QR steps of its preparatory normalize
\* are no more than the other direction's would have been: rnorm - 1 steps
\* down to site 1 for 'right', L - 1 - lnorm steps up to site L - 1 for
\* 'left'.
C9_DefaultDirection ==
    (lastOp.op = "compress" /\ lastOp.noargs /\ lastOp.direction # "") =>
        Len(lastOp.qrs) <=
            IF lastOp.direction = "right"
            THEN Max(lastOp.preLen - 1 - lastOp.pre[1], 0)
            ELSE Max(lastOp.pre[2] - 1, 0)

\* C10: no two arrays share the storage of a local tensor, and an in-place
\* call (normalize, compress, *=) changes the local tensors of at most one
\* array.
C10_ExclusiveOwnership ==
    [][/\ alias' = {}
       /\ lastOp'.op \in {"normalize", "compress", "imul"} =>
             \A u \in Slots, v \in Slots :
                u # v => (arrs'[u].ltens = arrs[u].ltens
                          \/ arrs'[v].ltens = arrs[v].ltens)]_vars

\* C11: normalize with targets 0 <= left < right <= L on an array of length
\* L returns, and a normalize that raises has raised the assertion error of
\* a wrong argument order: left >= right, left >= L or right <= 0.
C11_NormalizeCompletes ==
    lastOp.op = "normalize" =>
        /\ (/\ 0 <= lastOp.left
            /\ lastOp.left < lastOp.right
            /\ lastOp.right <= lastOp.preLen) => lastOp.ok
        /\ ~lastOp.ok =>
              /\ lastOp.err = "AssertionError"
              /\ \/ lastOp.left >= lastOp.right
                 \/ lastOp.left >= lastOp.preLen
                 \/ lastOp.right <= 0

\* C12: a compress with method 'svd' on an array of length L >= 1 does not
\* raise an assertion error, and for every array of length L >= 1 held, the
\* normalize that compress runs first, when it returns, leaves normal form
\* (0, 1) for direction 'right' and (L - 1, L) for direction 'left'.
C12_SweepPreconditions ==
    /\ (lastOp.op = "compress" /\ lastOp.preLen >= 1) =>
          lastOp.err # "AssertionError"
    /\ \A s \in Slots : (arrs[s].live /\ len(arrs[s]) >= 1) =>
          LET L == len(arrs[s])
              right == normalize(Run(arrs[s]), "both", 0, 1)
              left == normalize(Run(arrs[s]), "both", L - 1, L)
          IN  /\ right.ok => RunNF(right) = <<0, 1>>
              /\ left.ok => RunNF(left) = <<L - 1, L>>

\* compress has returned from a sweep to the right over a chain of two sites
\* or more whose normal form was not (0, 1), after its normalize swept down
\* to site 1
C12_Witness ==
    /\ lastOp.op = "compress" /\ lastOp.ok
    /\ lastOp.direction = "right"
    /\ lastOp.preLen >= 2
    /\ lastOp.pre[1] >= 1
    /\ Len(lastOp.sweeps) = 1
    /\ lastOp.sweeps[1].dir = "right"
    /\ lastOp.sweeps[1].post = <<0, 1>>

====
